---- MODULE Spec2Model ----
(***************************************************************************)
(* A model of the DRL-tensorflow agents: the ReplayBuffer shared by        *)
(* ddpg_sp/DDPG_class.py and sac_sp/SAC_class.py, the DDPG and SAC agent   *)
(* classes built on it, and the DDPG training loop.                        *)
(*                                                                         *)
(* Real-valued quantities are scaled integers: actions and noise are in    *)
(* tenths, network parameters are multiples of 1/Scale.  A buffer array is *)
(* a function on 0..max_size-1, as the numpy arrays are indexed.           *)
(***************************************************************************)
EXTENDS Integers, Sequences, FiniteSets, TLC

\* ------------------------------------------------------------------ bounds
MaxCap == 2        \* largest capacity a stand-alone ReplayBuffer is built with
MaxStores == 4     \* stores per run of the stand-alone buffer
NumTrans == 3      \* distinct transitions a caller can hand to store
MaxBatch == 2      \* largest batch_size passed to sample_batch
AgentCap == 1      \* largest replay_size an agent is built with
AgentStores == 1   \* store_transition calls per run of an agent
AgentBatch == 1    \* largest batch_size passed to learn
MaxLearn == 1      \* completed learn calls per run of an agent
MaxTestN == 2      \* largest n passed to test_agent
MaxEpLen == 2      \* largest max_ep_len passed to test_agent
MaxTimeStep == 1   \* largest time_step passed to save_step_network
MaxRestore == 1    \* checkpoints restored per run of an agent
ActLimit == 3      \* a_bound, in tenths
DrvEpochs == 2     \* args.epochs of the training loop
DrvMaxSteps == 2   \* largest args.max_steps of the training loop
DrvTestN == 1      \* n of the training loop's test_agent calls
DrvTestLen == 1    \* max_ep_len of the training loop's test_agent calls

\* ------------------------------------------------------- program constants
PolyakNum == 199   \* polyak = 0.995 = PolyakNum / PolyakDen
PolyakDen == 200
ActNoise == 1      \* act_noise = 0.1, in tenths

VARIABLES
    max_size, ptr, size,                  \* ReplayBuffer cursor, fill, capacity
    obs1_buf, obs2_buf, acts_buf, rews_buf, done_buf,
    ret,                                  \* outcome of the last call
    hist,                                 \* history: transitions stored so far
    wr,                                   \* history: per array and slot, the store that wrote it
    variant,                              \* "DDPG" or "SAC": the class of the agent
    cfg,                                  \* replay_size, polyak, batch_size of the constructor call
    agent,                                \* "Uninitialized" or "Ready"
    main, targ,                           \* parameters of the main and target scopes
    learn_step,
    tst,                                  \* the test_agent call in progress
    hard_copies, n_learn,                 \* history: target_init runs, completed learn calls
    ckpt,                                 \* the checkpoint on disk, if any
    n_restore,                            \* history: checkpoints restored
    drv                                   \* the training loop: its position and locals

bufvars == <<max_size, ptr, size, obs1_buf, obs2_buf, acts_buf, rews_buf, done_buf>>
agentvars == <<variant, cfg, agent, main, targ, learn_step, tst, hard_copies, n_learn,
               ckpt, n_restore>>
vars == <<bufvars, ret, hist, wr, agentvars, drv>>

Fields == {"obs1", "obs2", "acts", "rews", "done"}

\* The variable groups of a scope: the policy ('pi') and the value functions
\* ('q' for DDPG; 'q1', 'q2' and 'v' for SAC).
Groups == {"pi", "val"}

Min(a, b) == IF a < b THEN a ELSE b

\* The k-th transition of the environment: (s, a, r, s_, done).
Trans(k) == [obs |-> k, act |-> 0 - k, rew |-> k % 2, next_obs |-> k + 1, done |-> (k % 3 = 0)]

Transitions == {Trans(k) : k \in 1..NumTrans}

\* A Python bool written into a float32 array.
ToFloat(d) == IF d THEN 1 ELSE 0

\* np.zeros(n)
zeros(n) == [i \in 0..(n - 1) |-> 0]

\* ------------------------------------------------------------ ReplayBuffer
ReplayBuffer_init(sz) ==
    /\ obs1_buf' = zeros(sz)
    /\ obs2_buf' = zeros(sz)
    /\ acts_buf' = zeros(sz)
    /\ rews_buf' = zeros(sz)
    /\ done_buf' = zeros(sz)
    /\ ptr' = 0
    /\ size' = 0
    /\ max_size' = sz
    /\ wr' = [f \in Fields |-> zeros(sz)]
    /\ hist' = <<>>

\* store with the cursor advanced without the wrap-around
store_nowrap(t) ==
    IF ptr \in DOMAIN obs1_buf
    THEN /\ obs1_buf' = [obs1_buf EXCEPT ![ptr] = t.obs]
         /\ obs2_buf' = [obs2_buf EXCEPT ![ptr] = t.next_obs]
         /\ acts_buf' = [acts_buf EXCEPT ![ptr] = t.act]
         /\ rews_buf' = [rews_buf EXCEPT ![ptr] = t.rew]
         /\ done_buf' = [done_buf EXCEPT ![ptr] = ToFloat(t.done)]
         /\ ptr' = ptr + 1
         /\ size' = Min(size + 1, max_size)
         /\ hist' = Append(hist, t)
         /\ wr' = [f \in Fields |-> [wr[f] EXCEPT ![ptr] = Len(hist) + 1]]
         /\ ret' = [op |-> "store", status |-> "ok"]
         /\ UNCHANGED max_size
    ELSE /\ ret' = [op |-> "store", status |-> "IndexError"]
         /\ UNCHANGED <<bufvars, hist, wr>>

\* store with next_obs written one slot ahead of the cursor
store_skew(t) ==
    IF ptr \in DOMAIN obs1_buf
    THEN /\ obs1_buf' = [obs1_buf EXCEPT ![ptr] = t.obs]
         /\ obs2_buf' = [obs2_buf EXCEPT ![(ptr + 1) % max_size] = t.next_obs]
         /\ acts_buf' = [acts_buf EXCEPT ![ptr] = t.act]
         /\ rews_buf' = [rews_buf EXCEPT ![ptr] = t.rew]
         /\ done_buf' = [done_buf EXCEPT ![ptr] = ToFloat(t.done)]
         /\ ptr' = (ptr + 1) % max_size
         /\ size' = Min(size + 1, max_size)
         /\ hist' = Append(hist, t)
         /\ wr' = [f \in Fields |->
                     IF f = "obs2"
                     THEN [wr[f] EXCEPT ![(ptr + 1) % max_size] = Len(hist) + 1]
                     ELSE [wr[f] EXCEPT ![ptr] = Len(hist) + 1]]
         /\ ret' = [op |-> "store", status |-> "ok"]
         /\ UNCHANGED max_size
    ELSE /\ ret' = [op |-> "store", status |-> "IndexError"]
         /\ UNCHANGED <<bufvars, hist, wr>>

\* store with a size that is not capped at the capacity
store_nocap(t) ==
    IF ptr \in DOMAIN obs1_buf
    THEN /\ obs1_buf' = [obs1_buf EXCEPT ![ptr] = t.obs]
         /\ obs2_buf' = [obs2_buf EXCEPT ![ptr] = t.next_obs]
         /\ acts_buf' = [acts_buf EXCEPT ![ptr] = t.act]
         /\ rews_buf' = [rews_buf EXCEPT ![ptr] = t.rew]
         /\ done_buf' = [done_buf EXCEPT ![ptr] = ToFloat(t.done)]
         /\ ptr' = (ptr + 1) % max_size
         /\ size' = size + 1
         /\ hist' = Append(hist, t)
         /\ wr' = [f \in Fields |-> [wr[f] EXCEPT ![ptr] = Len(hist) + 1]]
         /\ ret' = [op |-> "store", status |-> "ok"]
         /\ UNCHANGED max_size
    ELSE /\ ret' = [op |-> "store", status |-> "IndexError"]
         /\ UNCHANGED <<bufvars, hist, wr>>

\* ReplayBuffer.store: an index outside the arrays raises IndexError before
\* anything is written.
store(t) ==
    IF ptr \in DOMAIN obs1_buf
    THEN /\ obs1_buf' = [obs1_buf EXCEPT ![ptr] = t.obs]
         /\ obs2_buf' = [obs2_buf EXCEPT ![ptr] = t.next_obs]
         /\ acts_buf' = [acts_buf EXCEPT ![ptr] = t.act]
         /\ rews_buf' = [rews_buf EXCEPT ![ptr] = t.rew]
         /\ done_buf' = [done_buf EXCEPT ![ptr] = ToFloat(t.done)]
         /\ ptr' = (ptr + 1) % max_size
         /\ size' = Min(size + 1, max_size)
         /\ hist' = Append(hist, t)
         /\ wr' = [f \in Fields |-> [wr[f] EXCEPT ![ptr] = Len(hist) + 1]]
         /\ ret' = [op |-> "store", status |-> "ok"]
         /\ UNCHANGED max_size
    ELSE /\ ret' = [op |-> "store", status |-> "IndexError"]
         /\ UNCHANGED <<bufvars, hist, wr>>

\* np.random.randint(low, high, size=n): the arrays of n integers of
\* [low, high); the call raises ValueError when that range is empty.
randint(low, high, n) == [1..n -> low..(high - 1)]

\* The rows sample_batch reads at idxs.
Rows(idxs) ==
    [idxs |-> idxs,
     obs1 |-> [i \in DOMAIN idxs |-> obs1_buf[idxs[i]]],
     obs2 |-> [i \in DOMAIN idxs |-> obs2_buf[idxs[i]]],
     acts |-> [i \in DOMAIN idxs |-> acts_buf[idxs[i]]],
     rews |-> [i \in DOMAIN idxs |-> rews_buf[idxs[i]]],
     done |-> [i \in DOMAIN idxs |-> done_buf[idxs[i]]],
     src  |-> [f \in Fields |-> [i \in DOMAIN idxs |-> wr[f][idxs[i]]]]]

\* sample_batch that draws from the whole capacity
sample_batch_cap(n) ==
    IF max_size <= 0
    THEN {[status |-> "ValueError"]}
    ELSE {[status |-> "ok", n |-> n, batch |-> Rows(idxs)] : idxs \in randint(0, max_size, n)}

\* ReplayBuffer.sample_batch(n): what the call may return or raise.  randint
\* raises ValueError on an empty range, and indexing an array outside its
\* bounds raises IndexError; the buffer is only read.
sample_batch(n) ==
    IF size <= 0
    THEN {[status |-> "ValueError"]}
    ELSE {IF \A i \in DOMAIN idxs : idxs[i] \in DOMAIN obs1_buf
          THEN [status |-> "ok", n |-> n, batch |-> Rows(idxs)]
          ELSE [status |-> "IndexError"] : idxs \in randint(0, size, n)}

\* ------------------------------------------- the stand-alone replay buffer
Init ==
    /\ max_size = 0 /\ ptr = 0 /\ size = 0
    /\ obs1_buf = zeros(0) /\ obs2_buf = zeros(0) /\ acts_buf = zeros(0)
    /\ rews_buf = zeros(0) /\ done_buf = zeros(0)
    /\ ret = [op |-> "none", status |-> "ok"]
    /\ hist = <<>>
    /\ wr = [f \in Fields |-> zeros(0)]
    /\ variant = "none"
    /\ cfg = [replay_size |-> 0, polyak |-> PolyakNum, batch_size |-> 0]
    /\ agent = "Uninitialized"
    /\ main = [g \in Groups |-> 0]
    /\ targ = [g \in Groups |-> 0]
    /\ learn_step = 0
    /\ tst = [pc |-> "idle"]
    /\ hard_copies = 0
    /\ n_learn = 0
    /\ ckpt = [found |-> FALSE]
    /\ n_restore = 0
    /\ drv = [pc |-> "start"]

BufNew ==
    /\ ret.op = "none"
    /\ \E sz \in 1..MaxCap : ReplayBuffer_init(sz)
    /\ ret' = [op |-> "ReplayBuffer", status |-> "ok"]
    /\ UNCHANGED <<agentvars, drv>>

BufStore ==
    /\ ret.op # "none"
    /\ Len(hist) < MaxStores
    /\ \E t \in Transitions : store(t)
    /\ UNCHANGED <<agentvars, drv>>

BufSample ==
    /\ ret.op # "none"
    /\ \E n \in 1..MaxBatch : \E out \in sample_batch(n) :
          ret' = [op |-> "sample_batch"] @@ out
    /\ UNCHANGED <<bufvars, hist, wr, agentvars, drv>>

NextBuffer == BufNew \/ BufStore \/ BufSample

SpecBuffer == Init /\ [][NextBuffer]_vars

\* ------------------------------------------------------------------ agents
Variants == {"DDPG", "SAC"}

\* Parameter values are multiples of 1/Scale, so that MaxLearn Polyak steps
\* are exact.
Scale == PolyakDen ^ MaxLearn

\* The values an initializer or an optimizer step leaves in a variable group.
ParamVals == {0, Scale}

Params == [Groups -> ParamVals]

\* a construction that never runs target_init
target_init_skip(m, t) == t

\* target_init: tf.assign(v_targ, v_main) for every pair of variables
target_init(m, t) == [g \in Groups |-> m[g]]

\* DDPG.__init__ and SAC.__init__: the replay buffer, then
\* global_variables_initializer (m0 and t0) and target_init.
\* polyak is in PolyakDen-ths and is built into target_update; batch_size is
\* not used; no argument is validated.  np.zeros raises ValueError for a
\* negative replay_size, and the constructor is left with nothing built.
Agent_init(v, replay_size, polyak, batch_size, m0, t0) ==
    IF replay_size < 0
    THEN /\ ret' = [op |-> "__init__", status |-> "ValueError"]
         /\ UNCHANGED <<bufvars, hist, wr, agentvars>>
    ELSE /\ learn_step' = 0
         /\ variant' = v
         /\ cfg' = [replay_size |-> replay_size, polyak |-> polyak,
                    batch_size |-> batch_size]
         /\ ReplayBuffer_init(replay_size)
         /\ main' = m0
         /\ targ' = target_init(m0, t0)
         /\ hard_copies' = hard_copies + 1
         /\ agent' = "Ready"
         /\ ret' = [op |-> "__init__", status |-> "ok"]
         /\ UNCHANGED <<tst, n_learn, ckpt, n_restore>>

\* np.clip
clip(a, lo, hi) == IF a < lo THEN lo ELSE IF a > hi THEN hi ELSE a

\* The factor get_action multiplies np.random.randn by: DDPG replaces a
\* noise_scale of 0 by self.action_noise.
noise_scale_used(v, noise_scale) ==
    IF v = "DDPG"
    THEN (IF noise_scale = 0 THEN ActNoise ELSE noise_scale)
    ELSE noise_scale

\* The tensor get_action evaluates: DDPG's self.pi is its deterministic
\* policy; SAC has the mean self.mu and the sampled action self.pi.
act_op(v, noise_scale) ==
    IF v = "DDPG" THEN "pi"
    ELSE IF noise_scale = 0 THEN "mu" ELSE "pi"

\* The tensor that holds the deterministic (mean) action of the policy.
DeterministicOp(v) == IF v = "DDPG" THEN "pi" ELSE "mu"

\* get_action returning the noisy action as it is
get_action_noclip(v, noise_scale, raw, z) ==
    raw + noise_scale_used(v, noise_scale) * z

\* get_action(s, noise_scale): raw is what sess.run(act_op) returns, z the
\* draw of np.random.randn.
get_action(v, noise_scale, raw, z) ==
    clip(raw + noise_scale_used(v, noise_scale) * z, 0 - ActLimit, ActLimit)

\* Outputs of the policy network, inside and outside the action bounds.
RawActs == {0 - ActLimit - 1, 0, ActLimit}

Randn == {0 - 1, 0, 1}

\* noise_scale arguments: the default 0, and 0.1
NoiseScales == {0, 1}

\* The operations one learn call submits to sess.run: the two optimizer steps
\* and the two assignments that target_update groups.
TrainOps == {"train_pi", "train_val"}
UpdOps == {"upd_pi", "upd_val"}

GroupOf(op) == IF op \in {"train_pi", "upd_pi"} THEN "pi" ELSE "val"

\* The sess.run calls of one learn call, each with the operations it fetches.
SessRuns(v) ==
    IF v = "DDPG"
    THEN <<{"train_val"}, {"train_pi", "upd_pi", "upd_val"}>>
    ELSE <<{"train_pi", "train_val", "upd_pi", "upd_val"}>>

\* a graph built without tf.control_dependencies
ControlDeps_none(v, op) == {}

\* tf.control_dependencies: the operations that must have run before op.
ControlDeps(v, op) ==
    IF v = "SAC"
    THEN (IF op = "train_val" THEN {"train_pi"}
          ELSE IF op \in UpdOps THEN {"train_val"}
          ELSE {})
    ELSE {}

RECURSIVE Perms(_)
Perms(S) ==
    IF S = {} THEN {<<>>}
    ELSE UNION {{<<x>> \o p : p \in Perms(S \ {x})} : x \in S}

\* The orders in which one sess.run may execute the operations S: any order
\* that respects the control dependencies.
RunOrders(v, S) ==
    {p \in Perms(S) :
        \A a, b \in 1..Len(p) : p[b] \in ControlDeps(v, p[a]) => b < a}

RECURSIVE LearnOrdersFrom(_, _)
LearnOrdersFrom(v, k) ==
    IF k > Len(SessRuns(v)) THEN {<<>>}
    ELSE {p \o q : p \in RunOrders(v, SessRuns(v)[k]), q \in LearnOrdersFrom(v, k + 1)}

LearnOrdersDDPG == LearnOrdersFrom("DDPG", 1)
LearnOrdersSAC == LearnOrdersFrom("SAC", 1)

\* The orders in which one learn call may execute its operations.
LearnOrders(v) == IF v = "DDPG" THEN LearnOrdersDDPG ELSE LearnOrdersSAC

\* polyak * v_targ + (1 - polyak) * v_main
polyak_mix(t, m) == (cfg.polyak * t + (PolyakDen - cfg.polyak) * m) \div PolyakDen

\* One operation on st = [main, targ, seen]: an optimizer step leaves g[group]
\* in the main variable; a target_update assignment reads the main variable
\* (seen records what it read) and writes the target variable.
ApplyOp(st, op, g) ==
    LET x == GroupOf(op)
    IN  IF op \in TrainOps
        THEN [st EXCEPT !.main[x] = g[x]]
        ELSE [st EXCEPT !.targ[x] = polyak_mix(st.targ[x], st.main[x]),
                        !.seen[x] = st.main[x]]

RECURSIVE ApplyOps(_, _, _)
ApplyOps(st, order, g) ==
    IF order = <<>> THEN st
    ELSE ApplyOps(ApplyOp(st, Head(order), g), Tail(order), g)

\* learn without learn_step += 1
learn_no_count(batch_size, g) ==
    \E out \in sample_batch(batch_size) :
        IF out.status # "ok"
        THEN /\ ret' = [op |-> "learn", status |-> out.status]
             /\ UNCHANGED <<bufvars, hist, wr, agentvars>>
        ELSE \E order \in LearnOrders(variant) :
                LET st == ApplyOps([main |-> main, targ |-> targ, seen |-> main], order, g)
                IN  /\ main' = st.main
                    /\ targ' = st.targ
                    /\ n_learn' = n_learn + 1
                    /\ ret' = [op |-> "learn", status |-> "ok", order |-> order,
                               seen |-> st.seen, batch |-> out.batch,
                               main0 |-> main, targ0 |-> targ]
                    /\ UNCHANGED <<bufvars, hist, wr, variant, cfg, agent, tst, hard_copies,
                                   ckpt, n_restore, learn_step>>

\* DDPG.learn and SAC.learn: sample_batch, the sess.run calls, learn_step += 1.
\* An exception of sample_batch leaves learn before anything else is done.
\* g holds what the two optimizer steps of this call leave in main.
learn(batch_size, g) ==
    \E out \in sample_batch(batch_size) :
        IF out.status # "ok"
        THEN /\ ret' = [op |-> "learn", status |-> out.status]
             /\ UNCHANGED <<bufvars, hist, wr, agentvars>>
        ELSE \E order \in LearnOrders(variant) :
                LET st == ApplyOps([main |-> main, targ |-> targ, seen |-> main], order, g)
                IN  /\ main' = st.main
                    /\ targ' = st.targ
                    /\ learn_step' = learn_step + 1
                    /\ n_learn' = n_learn + 1
                    /\ ret' = [op |-> "learn", status |-> "ok", order |-> order,
                               seen |-> st.seen, batch |-> out.batch,
                               main0 |-> main, targ0 |-> targ]
                    /\ UNCHANGED <<bufvars, hist, wr, variant, cfg, agent, tst, hard_copies,
                                   ckpt, n_restore>>

Rewards == {0, 1}

RECURSIVE SumSeq(_)
SumSeq(q) == IF q = <<>> THEN 0 ELSE Head(q) + SumSeq(Tail(q))

\* test_agent(env, max_ep_len, n), up to the first episode
test_agent_call(n, len) ==
    /\ tst' = [pc |-> "episodes", n |-> n, len |-> len, j |-> 0, i |-> 0,
               ep_reward |-> 0, ep_reward_list |-> <<>>,
               resets |-> 0, steps |-> 0, clean |-> TRUE]
    /\ ret' = [op |-> "test_agent", status |-> "running"]

\* for j in range(n): s = env.reset(); ep_reward = 0
test_agent_reset ==
    /\ tst.pc = "episodes" /\ tst.j < tst.n
    /\ tst' = [tst EXCEPT !.pc = "steps", !.i = 0, !.ep_reward = 0, !.resets = @ + 1]
    /\ UNCHANGED ret

\* for i in range(max_ep_len): one env.step of the selected action.  DDPG
\* selects it with self.get_action(s); SAC calls self.choose_action(s), which
\* the class does not define.
test_agent_step(raw, z, r) ==
    /\ tst.pc = "steps" /\ tst.i < tst.len
    /\ IF variant = "SAC"
       THEN /\ ret' = [op |-> "test_agent", status |-> "AttributeError",
                       n |-> tst.n, len |-> tst.len,
                       resets |-> tst.resets, steps |-> tst.steps]
            /\ tst' = [pc |-> "idle"]
       ELSE /\ tst' = [tst EXCEPT
                         !.i = @ + 1, !.steps = @ + 1, !.ep_reward = @ + r,
                         !.clean = @ /\ act_op(variant, 0) = DeterministicOp(variant)
                                     /\ (get_action(variant, 0, raw, z)
                                           = clip(raw, 0 - ActLimit, ActLimit))]
            /\ UNCHANGED ret

\* ep_reward_list.append(ep_reward)
test_agent_episode_end ==
    /\ tst.pc = "steps" /\ tst.i = tst.len
    /\ tst' = [tst EXCEPT !.pc = "episodes", !.j = @ + 1,
                          !.ep_reward_list = Append(@, tst.ep_reward)]
    /\ UNCHANGED ret

\* return np.mean(ep_reward_list): the mean is mean_num / mean_den
test_agent_return ==
    /\ tst.pc = "episodes" /\ tst.j = tst.n
    /\ ret' = [op |-> "test_agent", status |-> "ok", n |-> tst.n, len |-> tst.len,
               resets |-> tst.resets, steps |-> tst.steps, clean |-> tst.clean,
               ep_reward_list |-> tst.ep_reward_list,
               mean_num |-> SumSeq(tst.ep_reward_list),
               mean_den |-> Len(tst.ep_reward_list)]
    /\ tst' = [pc |-> "idle"]

\* -------------------------------------------------- an agent and its caller
Idle == agent = "Ready" /\ tst.pc = "idle"

Construct ==
    /\ agent = "Uninitialized"
    /\ \E v \in Variants : \E c \in 1..AgentCap : \E m0 \in Params : \E t0 \in Params :
          Agent_init(v, c, PolyakNum, AgentBatch, m0, t0)
    /\ UNCHANGED drv

\* The transitions an agent's caller stores.
AgentTransitions == {Trans(k) : k \in {1, 3}}

\* store_transition(transition)
StoreTransition ==
    /\ Idle
    /\ Len(hist) < AgentStores
    /\ \E t \in AgentTransitions : store(t)
    /\ UNCHANGED <<agentvars, drv>>

\* a sample_batch that removes the newest transition from the buffer
SampleBatch_consume ==
    /\ Idle
    /\ \E n \in 1..AgentBatch : \E out \in sample_batch(n) :
          ret' = [op |-> "sample_batch"] @@ out
    /\ size' = IF size > 0 THEN size - 1 ELSE size
    /\ UNCHANGED <<max_size, ptr, obs1_buf, obs2_buf, acts_buf, rews_buf, done_buf,
                   hist, wr, agentvars, drv>>

\* replay_buffer.sample_batch(n)
SampleBatch ==
    /\ Idle
    /\ \E n \in 1..AgentBatch : \E out \in sample_batch(n) :
          ret' = [op |-> "sample_batch"] @@ out
    /\ UNCHANGED <<bufvars, hist, wr, agentvars, drv>>

GetAction ==
    /\ Idle
    /\ \E ns \in NoiseScales : \E raw \in RawActs : \E z \in Randn :
          ret' = [op |-> "get_action", status |-> "ok", noise_scale |-> ns,
                  act_op |-> act_op(variant, ns), raw |-> raw, z |-> z,
                  a |-> get_action(variant, ns, raw, z)]
    /\ UNCHANGED <<bufvars, hist, wr, agentvars, drv>>

Learn ==
    /\ Idle
    /\ n_learn < MaxLearn
    /\ \E bs \in 1..AgentBatch : \E g \in Params : learn(bs, g)
    /\ UNCHANGED drv

TestCall ==
    /\ Idle
    /\ \E n \in 1..MaxTestN : \E len \in 1..MaxEpLen : test_agent_call(n, len)
    /\ UNCHANGED <<bufvars, hist, wr, variant, cfg, agent, main, targ, learn_step,
                   hard_copies, n_learn, ckpt, n_restore, drv>>

TestReset ==
    /\ test_agent_reset
    /\ UNCHANGED <<bufvars, hist, wr, variant, cfg, agent, main, targ, learn_step,
                   hard_copies, n_learn, ckpt, n_restore, drv>>

TestStep ==
    /\ \E raw \in RawActs : \E z \in Randn : \E r \in Rewards :
          test_agent_step(raw, z, r)
    /\ UNCHANGED <<bufvars, hist, wr, variant, cfg, agent, main, targ, learn_step,
                   hard_copies, n_learn, ckpt, n_restore, drv>>

TestEpisodeEnd ==
    /\ test_agent_episode_end
    /\ UNCHANGED <<bufvars, hist, wr, variant, cfg, agent, main, targ, learn_step,
                   hard_copies, n_learn, ckpt, n_restore, drv>>

TestReturn ==
    /\ test_agent_return
    /\ UNCHANGED <<bufvars, hist, wr, variant, cfg, agent, main, targ, learn_step,
                   hard_copies, n_learn, ckpt, n_restore, drv>>

\* An agent whose caller stores, samples, selects actions and learns.
Next ==
    \/ Construct
    \/ StoreTransition
    \/ SampleBatch
    \/ GetAction
    \/ Learn

Spec == Init /\ [][Next]_vars

\* The polyak arguments a caller constructs an agent with: 0, 0.995 and 1.
PolyakArgs == {0, PolyakNum, PolyakDen}

\* A constructor call with any hyperparameters.
ConstructAny ==
    /\ agent = "Uninitialized"
    /\ \E v \in Variants : \E c \in (0 - 1)..AgentCap : \E p \in PolyakArgs :
       \E b \in 0..AgentBatch : \E m0 \in Params : \E t0 \in Params :
          Agent_init(v, c, p, b, m0, t0)
    /\ UNCHANGED drv

\* An agent built with any hyperparameters, whose caller stores and learns.
NextConfig ==
    \/ ConstructAny
    \/ StoreTransition
    \/ Learn

SpecConfig == Init /\ [][NextConfig]_vars

\* ------------------------------------------------------------- checkpoints
\* A path is the sequence of its pieces, with every '-' a piece of its own.
DecimalDigits == <<"0", "1", "2", "3", "4", "5", "6", "7", "8", "9">>

\* str(n) and int(s) for a number of one digit
str(n) == DecimalDigits[n + 1]
int(s) == (CHOOSE k \in 1..Len(DecimalDigits) : DecimalDigits[k] = s) - 1

\* The save_path of the caller, 'run-1/', and the load_path values: that
\* directory and one that holds no checkpoint.
SavePath == <<"run", "-", "1/">>
LoadPaths == {SavePath, <<"other/">>}

TimeSteps == 0..MaxTimeStep

\* saver.save(sess, save_path + 'network', global_step=time_step): the file
\* is named "%s-%d" % (save_path + 'network', time_step).
checkpoint_file(save_path, time_step) ==
    save_path \o <<"network", "-">>
              \o (IF time_step < 0 THEN <<"-", str(0 - time_step)>> ELSE <<str(time_step)>>)

\* path.split('-')[-1]: what follows the last '-'
split_last(path) ==
    LET D == {i \in 1..Len(path) : path[i] = "-"}
    IN  IF D = {} THEN path
        ELSE SubSeq(path, (CHOOSE i \in D : \A k \in D : k <= i) + 1, Len(path))

\* save_step_network(time_step, saver, save_path): the checkpoint becomes the
\* latest one of the directory save_path.
save_step_network(time_step, save_path) ==
    /\ ckpt' = [found |-> TRUE, dir |-> save_path,
                model_checkpoint_path |-> checkpoint_file(save_path, time_step),
                main |-> main, targ |-> targ, time_step |-> time_step]
    /\ ret' = [op |-> "save_step_network", status |-> "ok"]
    /\ UNCHANGED <<bufvars, hist, wr, variant, cfg, agent, main, targ, learn_step, tst,
                   hard_copies, n_learn, n_restore>>

\* load_step_network that restores the variables and leaves learn_step
load_step_network_keep_step(load_path) ==
    /\ ret' = [op |-> "load_step_network", status |-> "ok", load_path |-> load_path,
               restored |-> ckpt.found /\ ckpt.dir = load_path]
    /\ IF ckpt.found /\ ckpt.dir = load_path
       THEN /\ main' = ckpt.main /\ targ' = ckpt.targ
            /\ n_restore' = n_restore + 1
       ELSE UNCHANGED <<main, targ, n_restore>>
    /\ UNCHANGED <<bufvars, hist, wr, variant, cfg, agent, learn_step, tst,
                   hard_copies, n_learn, ckpt>>

\* load_step_network(saver, load_path): with a checkpoint in load_path,
\* saver.restore and learn_step = int(model_checkpoint_path.split('-')[-1]),
\* where int raises ValueError on anything but a number; without one, a
\* message is printed.
load_step_network(load_path) ==
    IF ckpt.found /\ ckpt.dir = load_path
    THEN LET f == split_last(ckpt.model_checkpoint_path)
             number == Len(f) = 1 /\ (\E k \in 1..Len(DecimalDigits) : DecimalDigits[k] = f[1])
         IN  /\ main' = ckpt.main
             /\ targ' = ckpt.targ
             /\ n_restore' = n_restore + 1
             /\ learn_step' = IF number THEN int(f[1]) ELSE learn_step
             /\ ret' = [op |-> "load_step_network",
                        status |-> IF number THEN "ok" ELSE "ValueError",
                        load_path |-> load_path, restored |-> TRUE]
             /\ UNCHANGED <<bufvars, hist, wr, variant, cfg, agent, tst,
                            hard_copies, n_learn, ckpt>>
    ELSE /\ ret' = [op |-> "load_step_network", status |-> "ok",
                    load_path |-> load_path, restored |-> FALSE]
         /\ UNCHANGED <<bufvars, hist, wr, agentvars>>

SaveStepNetwork ==
    /\ Idle /\ variant = "DDPG"
    /\ \E t \in TimeSteps : save_step_network(t, SavePath)
    /\ UNCHANGED drv

LoadStepNetwork ==
    /\ Idle /\ variant = "DDPG"
    /\ n_restore < MaxRestore
    /\ \E lp \in LoadPaths : load_step_network(lp)
    /\ UNCHANGED drv

\* Parameter vectors with the same value in both groups.
UniformParams == {[x \in Groups |-> v] : v \in ParamVals}

\* net = DDPG(a_dim, obs_dim, a_bound): the class that has the checkpoint
\* methods.
CkptConstruct ==
    /\ agent = "Uninitialized"
    /\ \E c \in 1..AgentCap : \E m0 \in UniformParams :
          Agent_init("DDPG", c, PolyakNum, AgentBatch, m0, m0)
    /\ UNCHANGED drv

CkptLearn ==
    /\ Idle
    /\ n_learn < MaxLearn
    /\ \E g \in UniformParams : learn(AgentBatch, g)
    /\ UNCHANGED drv

\* An agent whose caller also saves and loads checkpoints.
NextCkpt ==
    \/ CkptConstruct
    \/ StoreTransition
    \/ CkptLearn
    \/ SaveStepNetwork
    \/ LoadStepNetwork

SpecCkpt == Init /\ [][NextCkpt]_vars

\* test_agent(env, max_ep_len, n) with the arguments of the training loop
TestCallOnce ==
    /\ Idle
    /\ test_agent_call(DrvTestN, DrvTestLen)
    /\ UNCHANGED <<bufvars, hist, wr, variant, cfg, agent, main, targ, learn_step,
                   hard_copies, n_learn, ckpt, n_restore, drv>>

\* An agent whose caller uses every method except save_step_network, so that
\* no load_step_network finds a checkpoint.
NextSteps ==
    \/ Construct
    \/ StoreTransition
    \/ GetAction
    \/ CkptLearn
    \/ LoadStepNetwork
    \/ TestCallOnce
    \/ TestReset
    \/ TestStep
    \/ TestEpisodeEnd
    \/ TestReturn

SpecSteps == Init /\ [][NextSteps]_vars

\* The same agent with a caller that also evaluates it with test_agent.
NextEval ==
    \/ Construct
    \/ StoreTransition
    \/ SampleBatch
    \/ GetAction
    \/ Learn
    \/ TestCall
    \/ TestReset
    \/ TestStep
    \/ TestEpisodeEnd
    \/ TestReturn

SpecEval == Init /\ [][NextEval]_vars

\* ------------------------------------------------------- the training loop
\* The main program of DDPG_class.py.  The environment answers a step from
\* observation s with the next observation, a reward and a done flag.
EnvSteps(s) == {[next_obs |-> 3 - s, rew |-> s % 2, done |-> d] : d \in BOOLEAN}

\* np.random.rand(a_dim) * a_bound: a value of [0, a_bound)
RandomActs == {ActLimit - 1}

WarmupEpisodes == 10
TestEvery == 20

\* the loop storing the flag the environment reported
stored_done_raw(j, T, done) == done

\* done = False if j == args.max_steps - 1 else done
stored_done(j, T, done) == IF j = T - 1 THEN FALSE ELSE done

\* The replay_size of the loop's agent: capacities below max_steps, equal
\* to it and above it.
DrvReplaySizes == {1, 2}

\* net = DDPG(a_dim, s_dim, a_bound, batch_size=100)
DrvStart ==
    /\ drv.pc = "start" /\ agent = "Uninitialized"
    /\ \E c \in DrvReplaySizes : \E m0 \in {[g \in Groups |-> v] : v \in ParamVals} :
       \E t0 \in Params :
          Agent_init("DDPG", c, PolyakNum, AgentBatch, m0, t0)
    /\ \E T \in 1..DrvMaxSteps :
          drv' = [pc |-> "episode", T |-> T, E |-> DrvEpochs, i |-> 0, j |-> 0, s |-> 0,
                  ep_reward |-> 0, l |-> 0, reported |-> <<>>, tests |-> 0]

\* the loop learning before the first store of an episode
DrvReset_learn_first ==
    /\ drv.pc = "episode" /\ drv.i < drv.E
    /\ drv' = [drv EXCEPT !.pc = "learn", !.s = 1, !.ep_reward = 0, !.j = 0, !.l = 0]
    /\ UNCHANGED <<bufvars, ret, hist, wr, agentvars>>

\* for i in range(args.epochs): s = env.reset(); ep_reward = 0
DrvReset ==
    /\ drv.pc = "episode" /\ drv.i < drv.E
    /\ drv' = [drv EXCEPT !.pc = "step", !.s = 1, !.ep_reward = 0, !.j = 0]
    /\ UNCHANGED <<bufvars, ret, hist, wr, agentvars>>

\* One pass of for j in range(args.max_steps), up to the test of the last step.
DrvStep ==
    /\ drv.pc = "step" /\ drv.j < drv.T
    /\ \E a0 \in (IF drv.i < WarmupEpisodes
                  THEN RandomActs
                  ELSE {get_action(variant, 1, raw, z) : raw \in RawActs, z \in Randn}) :
       \E e \in EnvSteps(drv.s) :
          LET a == clip(a0, 0 - ActLimit, ActLimit)
              done == stored_done(drv.j, drv.T, e.done)
          IN  /\ store([obs |-> drv.s, act |-> a, rew |-> e.rew,
                        next_obs |-> e.next_obs, done |-> done])
              /\ drv' = [drv EXCEPT
                           !.s = e.next_obs,
                           !.ep_reward = @ + e.rew,
                           !.reported = Append(@, [j |-> drv.j, done |-> e.done]),
                           !.pc = IF drv.j = drv.T - 1 THEN "learn" ELSE "step",
                           !.l = 0,
                           !.j = IF drv.j = drv.T - 1 THEN @ ELSE @ + 1]
    /\ UNCHANGED agentvars

\* for _ in range(args.max_steps): net.learn().  The optimizer steps of the
\* loop's learn calls are taken to leave the parameters where they are.
DrvLearn ==
    /\ drv.pc = "learn" /\ drv.l < drv.T
    /\ learn(AgentBatch, main)
    /\ drv' = [drv EXCEPT !.l = @ + 1]

\* the loop evaluating the agent after every episode
DrvAfterLearn_test_all ==
    /\ drv.pc = "learn" /\ drv.l = drv.T
    /\ test_agent_call(DrvTestN, DrvTestLen)
    /\ drv' = [drv EXCEPT !.pc = "test", !.tests = @ + 1]
    /\ UNCHANGED <<bufvars, hist, wr, variant, cfg, agent, main, targ, learn_step,
                   hard_copies, n_learn, ckpt, n_restore>>

\* if i % 20 == 0: test_agent(env=env, n=5), else break
DrvAfterLearn ==
    /\ drv.pc = "learn" /\ drv.l = drv.T
    /\ IF drv.i % TestEvery = 0
       THEN /\ test_agent_call(DrvTestN, DrvTestLen)
            /\ drv' = [drv EXCEPT !.pc = "test", !.tests = @ + 1]
       ELSE /\ drv' = [drv EXCEPT !.pc = "episode", !.i = @ + 1]
            /\ UNCHANGED <<ret, tst>>
    /\ UNCHANGED <<bufvars, hist, wr, variant, cfg, agent, main, targ, learn_step,
                   hard_copies, n_learn, ckpt, n_restore>>

\* test_ep_reward_list.append(test_ep_reward); break
DrvAfterTest ==
    /\ drv.pc = "test" /\ tst.pc = "idle"
    /\ drv' = [drv EXCEPT !.pc = "episode", !.i = @ + 1]
    /\ UNCHANGED <<bufvars, ret, hist, wr, agentvars>>

\* the loop is over: the plots
DrvFinish ==
    /\ drv.pc = "episode" /\ drv.i >= drv.E
    /\ drv' = [drv EXCEPT !.pc = "done"]
    /\ UNCHANGED <<bufvars, ret, hist, wr, agentvars>>

NextDriver ==
    \/ DrvStart
    \/ DrvReset
    \/ DrvStep
    \/ DrvLearn
    \/ DrvAfterLearn
    \/ TestReset
    \/ TestStep
    \/ TestEpisodeEnd
    \/ TestReturn
    \/ DrvAfterTest
    \/ DrvFinish

SpecDriver == Init /\ [][NextDriver]_vars

\* ------------------------------------------------------ replay-buffer claims
\* A stored transition as the five arrays hold it.
AsRow(t) == [obs1 |-> t.obs, obs2 |-> t.next_obs, acts |-> t.act, rews |-> t.rew,
             done |-> ToFloat(t.done)]

\* What slot x of the five arrays holds.
RowOf(o1, o2, a, r, d, x) == [obs1 |-> o1[x], obs2 |-> o2[x], acts |-> a[x],
                              rews |-> r[x], done |-> d[x]]

SlotRow(x) == RowOf(obs1_buf, obs2_buf, acts_buf, rews_buf, done_buf, x)

\* Row i of a returned batch.
BatchRow(b, i) == [obs1 |-> b.obs1[i], obs2 |-> b.obs2[i], acts |-> b.acts[i],
                   rews |-> b.rews[i], done |-> b.done[i]]

DistinctHist == \A j, k \in 1..Len(hist) : j # k => hist[j] # hist[k]

Sampled == ret.op = "sample_batch" /\ ret.status = "ok"

\* C1: after K >= C+1 stores of distinct transitions into a buffer of capacity
\* C the slots hold exactly the last C of them, each once, in insertion order
\* starting at the cursor; none of the first K-C is in any slot, and a batch
\* sampled then holds none of them.
C1_FifoContents ==
    (max_size >= 1 /\ Len(hist) >= max_size + 1 /\ DistinctHist) =>
        LET K == Len(hist)
            C == max_size
        IN  /\ size = C
            /\ \A i \in 0..(C - 1) : SlotRow((ptr + i) % C) = AsRow(hist[K - C + 1 + i])
            /\ \A k \in (K - C + 1)..K :
                    Cardinality({x \in 0..(C - 1) : SlotRow(x) = AsRow(hist[k])}) = 1
            /\ \A k \in 1..(K - C) : \A x \in 0..(C - 1) : SlotRow(x) # AsRow(hist[k])
            /\ Sampled =>
                    \A i \in 1..ret.n : \A k \in 1..(K - C) :
                        BatchRow(ret.batch, i) # AsRow(hist[k])

C1_Witness ==
    /\ max_size >= 2 /\ Len(hist) >= max_size + 1 /\ DistinctHist
    /\ Sampled

\* C2: a store writes the transition at the cursor, then advances the cursor
\* modulo the capacity and raises the size up to the capacity; the cursor and
\* the size stay in range and no store fails.
C2_StoreStep ==
    [][ /\ ret'.op = "store" =>
            /\ ret'.status = "ok"
            /\ Len(hist') = Len(hist) + 1
            /\ RowOf(obs1_buf', obs2_buf', acts_buf', rews_buf', done_buf', ptr)
                   = AsRow(hist'[Len(hist')])
            /\ \A x \in 0..(max_size - 1) :
                   x # ptr => RowOf(obs1_buf', obs2_buf', acts_buf', rews_buf', done_buf', x)
                                 = SlotRow(x)
            /\ ptr' = (ptr + 1) % max_size
            /\ size' = Min(size + 1, max_size)
            /\ max_size' = max_size
        /\ max_size' >= 1 => (0 <= ptr' /\ ptr' < max_size' /\ 0 <= size' /\ size' <= max_size')
      ]_vars

C2_Witness == ret.op = "store" /\ Len(hist) >= max_size + 1 /\ ptr = 0 /\ max_size >= 2

\* C3: with size >= 1, sample_batch(n) returns five arrays of length n; each
\* row is read at one index below size, all five fields of the row are those
\* of the one store call that last wrote that slot, and no row comes from a
\* slot that was never written.
C3_SampleRows ==
    (ret.op = "sample_batch" /\ size >= 1) =>
        /\ ret.status = "ok"
        /\ \A f \in Fields : DOMAIN ret.batch[f] = 1..ret.n
        /\ \A i \in 1..ret.n :
              \E x \in 0..(size - 1) : \E k \in 1..Len(hist) :
                  /\ BatchRow(ret.batch, i) = AsRow(hist[k])
                  /\ \A f \in Fields : ret.batch.src[f][i] = k /\ wr[f][x] = k
                  /\ ret.batch.idxs[i] = x

C3_Witness ==
    /\ Sampled /\ ret.n >= 2 /\ size >= 1 /\ size < max_size

\* ------------------------------------------------------------ agent claims
\* C4: sample_batch(n), called directly or by learn, on a buffer in which
\* nothing was ever stored raises an error instead of returning a batch, and
\* the failed call leaves ptr, size, the arrays, the parameters and learn_step
\* as they were.
C4_EmptySampleFails ==
    [][ (ret'.op \in {"sample_batch", "learn"} /\ size = 0 /\ Len(hist) = 0) =>
            /\ ret'.status = "ValueError"
            /\ UNCHANGED <<bufvars, main, targ, learn_step>>
      ]_vars

C4_Witness == agent = "Ready" /\ ret.op = "learn" /\ ret.status = "ValueError" /\ size = 0

LearnDone == ret.op = "learn" /\ ret.status = "ok"

\* Operation a ran before operation b in the order q.
Before(q, a, b) ==
    \E i, j \in 1..Len(q) : q[i] = a /\ q[j] = b /\ i < j

\* C5: in one DDPG.learn call the critic step runs first, the actor step
\* second and the target soft-update last, so each soft-update assignment
\* reads the main parameter both gradient steps of the call have left.
C5_DDPGLearnOrder ==
    (variant = "DDPG" /\ LearnDone) =>
        /\ Before(ret.order, "train_val", "train_pi")
        /\ \A u \in UpdOps :
              Before(ret.order, "train_val", u) /\ Before(ret.order, "train_pi", u)
        /\ ret.seen = main

\* C6: in one SAC.learn call the policy step runs before the value step and
\* the target soft-update after the value step, so each soft-update
\* assignment reads the main parameter both steps of the call have left.
C6_SACLearnOrder ==
    (variant = "SAC" /\ LearnDone) =>
        /\ Before(ret.order, "train_pi", "train_val")
        /\ \A u \in UpdOps : Before(ret.order, "train_val", u)
        /\ ret.seen = main

C6_Witness ==
    /\ variant = "SAC" /\ LearnDone
    /\ main.pi # ret.main0.pi /\ main.val # ret.main0.val

\* C7: an action selected with noise_scale = 0, and so every action
\* test_agent passes to env.step, is the clipped deterministic policy output
\* with no noise added.
C7_NoiseFreeEvaluation ==
    /\ (ret.op = "get_action" /\ ret.noise_scale = 0) =>
            /\ ret.act_op = DeterministicOp(variant)
            /\ ret.a = clip(ret.raw, 0 - ActLimit, ActLimit)
    /\ tst.pc # "idle" => tst.clean
    /\ (ret.op = "test_agent" /\ ret.status = "ok") => ret.clean

\* C8: test_agent(env, max_ep_len, n) returns normally after n resets and
\* n * max_ep_len steps with the mean of the n episode rewards, and changes
\* neither the replay buffer, the parameters nor learn_step.
C8_TestAgentPure ==
    [][ /\ (tst.pc # "idle" \/ tst'.pc # "idle") =>
              UNCHANGED <<bufvars, main, targ, learn_step>>
        /\ (tst.pc # "idle" /\ tst'.pc = "idle") =>
              /\ ret'.status = "ok"
              /\ ret'.resets = ret'.n
              /\ ret'.steps = ret'.n * ret'.len
              /\ ret'.mean_den = ret'.n
              /\ ret'.mean_num = SumSeq(ret'.ep_reward_list)
              /\ Len(ret'.ep_reward_list) = ret'.n
      ]_vars

\* Number of positions of the order q that hold operation a.
Count(q, a) == Cardinality({i \in 1..Len(q) : q[i] = a})

\* C11: a completed learn call runs the soft update once for the policy and
\* once for the value group, and leaves in each target parameter
\* polyak * old_target + (1 - polyak) * main with main the value the call's
\* gradient steps have left; from target = main the target moves by
\* (1 - polyak) times the change of main.
C11_SoftUpdateExact ==
    LearnDone =>
        /\ \A u \in UpdOps : Count(ret.order, u) = 1
        /\ \A x \in Groups :
              /\ PolyakDen * targ[x]
                    = cfg.polyak * ret.targ0[x] + (PolyakDen - cfg.polyak) * main[x]
              /\ ret.targ0[x] = ret.main0[x] =>
                    PolyakDen * (targ[x] - ret.targ0[x])
                      = (PolyakDen - cfg.polyak) * (main[x] - ret.main0[x])

\* C12: the action get_action returns lies in [-act_limit, act_limit] whatever
\* the policy output and the noise drawn, and the call changes neither the
\* replay buffer, the parameters nor learn_step.
C12_ActionClipped ==
    [][ ret'.op = "get_action" =>
            /\ 0 - ActLimit <= ret'.a /\ ret'.a <= ActLimit
            /\ UNCHANGED <<bufvars, main, targ, learn_step>>
      ]_vars

C12_Witness ==
    /\ ret.op = "get_action" /\ ret.noise_scale > 0
    /\ ret.raw + ret.noise_scale * ret.z > ActLimit
    /\ ret.a = ActLimit /\ size >= 1

\* C13: a constructor call with replay_size <= 0, batch_size <= 0 or polyak
\* outside (0, 1) is rejected, so every Ready agent, and with it every
\* store_transition and learn, has a valid configuration.
C13_InvalidConfigRejected ==
    agent = "Ready" =>
        /\ cfg.replay_size >= 1
        /\ cfg.batch_size >= 1
        /\ 0 < cfg.polyak /\ cfg.polyak < PolyakDen

\* C10: construction runs the hard copy of main into target once, before any
\* learn call; a Ready agent that has not learned has target equal to main,
\* and no later call runs the hard copy again.
C10_HardCopyOnce ==
    /\ agent = "Uninitialized" => (hard_copies = 0 /\ n_learn = 0)
    /\ agent = "Ready" => hard_copies = 1
    /\ (agent = "Ready" /\ n_learn = 0) => targ = main

C10_Witness ==
    /\ agent = "Ready" /\ n_learn = 0 /\ main.pi # main.val
    /\ ret.op = "get_action" /\ Len(hist) >= 1

\* ---------------------------------------------------- training-loop claims
\* The flag the k-th store of the loop must hold.
ExpectedDone(k) ==
    IF drv.reported[k].j = drv.T - 1 THEN FALSE ELSE drv.reported[k].done

\* C9: with step limit T, the transition of the last step of an episode
\* (j = T-1) is stored with done = false whatever the environment reported,
\* and the transition of an earlier step with the flag the environment
\* reported; the done array holds the stored flags.
C9_TruncationNotTerminal ==
    drv.pc # "start" =>
        /\ Len(drv.reported) = Len(hist)
        /\ \A k \in 1..Len(hist) : hist[k].done = ExpectedDone(k)
        /\ \A x \in 0..(size - 1) :
              wr["done"][x] >= 1 /\ done_buf[x] = ToFloat(ExpectedDone(wr["done"][x]))

C9_Witness ==
    /\ drv.pc # "start" /\ drv.T >= 2
    /\ \E k \in 1..Len(hist) :
          drv.reported[k].j = drv.T - 1 /\ drv.reported[k].done /\ ~hist[k].done
    /\ \E k \in 1..Len(hist) :
          drv.reported[k].j < drv.T - 1 /\ drv.reported[k].done /\ hist[k].done
    /\ \E x \in 0..(size - 1) : done_buf[x] = 1

\* The number of episodes before episode i whose index is a multiple of 20.
TestsBefore(i) == Cardinality({k \in 0..(i - 1) : k % TestEvery = 0})

\* C14: every episode of the loop makes T environment steps and T stores,
\* whatever done flags the environment reports, then T learn calls before the
\* next reset, then test_agent exactly when its index is a multiple of 20;
\* no learn call runs while the episode still has stores to make.
C14_EpisodeShape ==
    drv.pc # "start" =>
        LET T == drv.T
            K == Len(hist)
        IN  /\ Len(drv.reported) = K
            /\ learn_step = n_learn
            /\ drv.pc = "episode" =>
                  K = drv.i * T /\ n_learn = drv.i * T /\ drv.tests = TestsBefore(drv.i)
            /\ drv.pc = "step" =>
                  /\ drv.j < T /\ K = drv.i * T + drv.j
                  /\ n_learn = drv.i * T /\ drv.tests = TestsBefore(drv.i)
            /\ drv.pc = "learn" =>
                  /\ K = (drv.i + 1) * T
                  /\ drv.l <= T /\ n_learn = drv.i * T + drv.l
                  /\ drv.tests = TestsBefore(drv.i)
            /\ drv.pc = "test" =>
                  /\ K = (drv.i + 1) * T /\ n_learn = (drv.i + 1) * T
                  /\ drv.i % TestEvery = 0 /\ drv.tests = TestsBefore(drv.i + 1)
            /\ drv.pc = "done" =>
                  /\ drv.i = drv.E
                  /\ K = drv.E * T /\ n_learn = drv.E * T
                  /\ drv.tests = TestsBefore(drv.E)

C14_Witness ==
    /\ drv.pc = "done" /\ drv.T >= 2 /\ drv.E >= 2 /\ drv.tests = 1
    /\ \E k \in 1..Len(drv.reported) :
          drv.reported[k].done /\ drv.reported[k].j = 0

\* C19: in the loop every learn call finds at least one stored transition and
\* completes, and the first learn call of a run finds
\* min(max_steps, capacity) of them.
C19_LearnAfterStore ==
    [][ (drv.pc = "learn" /\ drv'.l = drv.l + 1) =>
            /\ Len(hist) >= 1 /\ size >= 1
            /\ ret'.op = "learn" /\ ret'.status = "ok"
            /\ n_learn' = n_learn + 1
            /\ n_learn = 0 => size = Min(drv.T, max_size)
      ]_vars

C19_Witness ==
    /\ drv.pc = "learn" /\ drv.l = 1 /\ n_learn = 1
    /\ ret.op = "learn" /\ ret.status = "ok"
    /\ drv.T < max_size /\ size = drv.T

\* C15: learn_step is 0 after construction, a completed learn call adds
\* exactly 1 to it and nothing else but a successful restore changes it; with
\* no checkpoint restored it is the number of completed learn calls and never
\* decreases.
C15_LearnStepCounts ==
    [][ /\ (agent = "Uninitialized" /\ agent' = "Ready") => learn_step' = 0
        /\ n_learn' # n_learn =>
              (n_learn' = n_learn + 1 /\ learn_step' = learn_step + 1)
        /\ (agent = "Ready" /\ n_learn' = n_learn /\ n_restore' = n_restore) =>
              learn_step' = learn_step
        /\ n_restore' = 0 => (learn_step' = n_learn' /\ learn_step' >= learn_step)
      ]_vars

C15_Witness ==
    /\ ret.op = "load_step_network" /\ ~ret.restored
    /\ learn_step = 1 /\ n_learn = 1 /\ Len(hist) >= 1

\* The checkpoint load_step_network finds at load_path, if there is one.
Found(load_path) == ckpt.found /\ ckpt.dir = load_path

\* C16: load_step_network returns normally; with no checkpoint at the load
\* path it leaves the parameters, learn_step and the replay buffer as they
\* were and the agent Ready; with a checkpoint that save_step_network wrote
\* with time_step = t it sets learn_step to t.
C16_LoadStepNetwork ==
    [][ ret'.op = "load_step_network" =>
            /\ ret'.status = "ok"
            /\ agent' = "Ready" /\ tst'.pc = "idle"
            /\ ~Found(ret'.load_path) =>
                  /\ ~ret'.restored
                  /\ UNCHANGED <<main, targ, learn_step, bufvars>>
            /\ Found(ret'.load_path) =>
                  /\ ret'.restored
                  /\ learn_step' = ckpt.time_step
      ]_vars

C16_Witness ==
    /\ ret.op = "load_step_network" /\ ret.restored
    /\ ckpt.time_step = 0 /\ learn_step = 0 /\ n_learn = 1

\* C17: only store changes the replay buffer: sample_batch and learn leave
\* ptr, size and the five arrays as they were, and the capacity of a
\* constructed agent's buffer never changes.
C17_BufferFrame ==
    [][ /\ ret'.op \in {"sample_batch", "learn"} => UNCHANGED bufvars
        /\ bufvars' # bufvars => ret'.op \in {"store", "__init__"}
        /\ agent = "Ready" => max_size' = max_size
      ]_vars

C17_Witness ==
    /\ LearnDone /\ size >= 1 /\ size = max_size
    /\ main # ret.main0

\* C18: after K stores into a buffer of capacity C, size = min(K, C) and
\* ptr = K mod C; ptr = size while the buffer is not full, the slots written
\* so far are exactly those below size, and a full buffer stays full.
C18_CursorAndSize ==
    [][ /\ max_size' >= 1 =>
              LET K == Len(hist')
                  C == max_size'
              IN  /\ size' = Min(K, C)
                  /\ ptr' = K % C
                  /\ size' < C => ptr' = size'
                  /\ \A x \in 0..(C - 1) :
                        (x < size') <=> (\A f \in Fields : wr'[f][x] >= 1)
        /\ (max_size >= 1 /\ size = max_size) => size' = max_size'
      ]_vars

C18_Witness ==
    /\ ret.op = "store" /\ max_size >= 2
    /\ Len(hist) = max_size + 1 /\ ptr = 1 /\ size = max_size

====
